---------------------------- MODULE Spec2Model ----------------------------
(***************************************************************************)
(* A model of the Movie Cleanup tool: the retry decorator and the          *)
(* filesystem operations of movie_cleanup.py and the Tk front end of       *)
(* gui.py.  Each component has its own specification over the shared       *)
(* variables:                                                              *)
(*   SpecRetry     the f_retry wrapper around one wrapped function         *)
(*   SpecGui       the button handlers, the worker threads and the Tk loop *)
(*   SpecOrganize  organize_files_into_folders on a directory tree         *)
(*   SpecRename    rename_movie_folders on a directory tree                *)
(*   SpecSubtitles move_and_rename_subtitles_and_nfo on a directory tree   *)
(* File names are sequences of one-character strings, so that splitext,    *)
(* startswith and endswith are computed as Python computes them.           *)
(***************************************************************************)
EXTENDS Integers, Sequences, FiniteSets, TLC

VARIABLES
    rw,         \* the activation record of f_retry (movie_cleanup.py:13-24)
    gui,        \* widgets and Tk event queue of MovieCleanupGUI
    threads,    \* the worker threads started by the button handlers
    logging,    \* the records handed to the process-wide logging module
    fs,         \* the directory tree under movies_directory
    run,        \* the activation of the filesystem operation being run
    order       \* the order in which the filesystem lists names

vars == <<rw, gui, threads, logging, fs, run, order>>

---------------------------------------------------------------------------
(* Bounds of the model *)

MaxTries == 5
MaxDelay == 2
MaxBackoff == 2
MaxPresses == 2
MaxRootFiles == 3
MaxFolders == 2
MaxSiblings == 5
MaxInSubs == 2
MaxDispatches == 1
MaxDenied == 1
MaxMtime == 2
MaxKeep == 2

(* Program constants *)

Tries == 4
Delay == 1
Backoff == 2

---------------------------------------------------------------------------
(* Generic helpers *)

Range(s) == {s[i] : i \in 1..Len(s)}

IsPrefix(s, t) == Len(s) <= Len(t) /\ SubSeq(t, 1, Len(s)) = s

NoTree == <<>>

OpIdle == [name |-> "none", pc |-> "idle"]

---------------------------------------------------------------------------
(***************************************************************************)
(* retry(exceptions, tries, delay, backoff): movie_cleanup.py:10-26        *)
(***************************************************************************)

\* What one call of the wrapped function can do: return a value, raise an
\* exception inside the `exceptions` scope (Exception), or raise one outside
\* it (a BaseException such as KeyboardInterrupt).
FuncResults == {"r1", "r2"}

FuncOutcomes ==
    {[kind |-> "return", value |-> v] : v \in FuncResults}
        \cup {[kind |-> "raise", value |-> "Exception"],
              [kind |-> "raise", value |-> "BaseException"]}

RetryIdle ==
    [pc |-> "idle", tries |-> Tries, delay |-> Delay, backoff |-> Backoff,
     _tries |-> 0, _delay |-> 0, events |-> <<>>, result |-> "none",
     caught |-> "none"]

\* line 14: _tries, _delay = tries, delay
RetryEnter(r) ==
    [r EXCEPT !.pc = "while", !._tries = r.tries, !._delay = r.delay]

\* A loop test that guards the last call too.
WhileCondition_Off(r) == r._tries > 0

\* line 15: while _tries > 1
WhileCondition(r) == r._tries > 1

\* line 18: except exceptions as e, with exceptions = (Exception)
Catches(exc) == exc = "Exception"

\* lines 16-18 and 24: one call of func; in the loop a matching exception is
\* caught, anything else (and every exception of the final call) propagates.
RetryAttempt(r, guarded, out) ==
    LET ev == Append(r.events, <<"attempt", out>>) IN
    IF out.kind = "return"
        THEN [r EXCEPT !.pc = "returned", !.events = ev, !.result = out.value]
    ELSE IF guarded /\ Catches(out.value)
        THEN [r EXCEPT !.pc = "except", !.events = ev, !.caught = out.value]
    ELSE [r EXCEPT !.pc = "raised", !.events = ev, !.result = out.value]

\* A linear instead of an exponential backoff.
NextDelay_Linear(r) == r._delay + r.backoff

\* line 23: _delay *= backoff
NextDelay(r) == r._delay * r.backoff

\* line 22: _tries -= 1
NextTries(r) == r._tries - 1

\* lines 19-23: the except block
RetryExcept(r) ==
    [r EXCEPT !.pc = "while",
              !.events = r.events \o <<<<"warning", r._delay>>, <<"sleep", r._delay>>>>,
              !._tries = NextTries(r),
              !._delay = NextDelay(r),
              !.caught = "none"]

---------------------------------------------------------------------------
(***************************************************************************)
(* Python strings, as sequences of characters                              *)
(***************************************************************************)

\* str.startswith(prefix)
StartsWith(s, prefix) == IsPrefix(prefix, s)

\* str.endswith(suffix)
EndsWith(s, suffix) ==
    Len(suffix) <= Len(s) /\ SubSeq(s, Len(s) - Len(suffix) + 1, Len(s)) = suffix

\* os.path.splitext(name): the extension starts at the last dot, unless
\* only dots come before it.
SplitextAt(s) ==
    LET dots == {i \in 1..Len(s) : s[i] = "."}
        last == IF dots = {} THEN 0 ELSE CHOOSE i \in dots : \A j \in dots : j <= i
    IN IF last > 0 /\ \E j \in 1..(last - 1) : s[j] # "." THEN last ELSE Len(s) + 1

\* os.path.splitext(name)[0]
Stem(s) == SubSeq(s, 1, SplitextAt(s) - 1)

\* os.path.splitext(name)[1]
Ext(s) == SubSeq(s, SplitextAt(s), Len(s))

---------------------------------------------------------------------------
(***************************************************************************)
(* The directory tree: a function from paths (sequences of names, relative  *)
(* to movies_directory; <<>> is the directory itself) to nodes.  A file     *)
(* node carries the identity of its content.                               *)
(***************************************************************************)

DirNode == [type |-> "dir"]

FileNode(id) == [type |-> "file", data |-> id]

Exists(f, p) == p \in DOMAIN f

IsFile(f, p) == Exists(f, p) /\ f[p].type = "file"

IsDir(f, p) == Exists(f, p) /\ f[p].type = "dir"

Parent(p) == SubSeq(p, 1, Len(p) - 1)

Basename(p) == p[Len(p)]

Under(p, d) == Len(p) > Len(d) /\ SubSeq(p, 1, Len(d)) = d

Children(f, d) == {Basename(p) : p \in {q \in DOMAIN f : Len(q) = Len(d) + 1 /\ Under(q, d)}}

Restrict(f, D) == [p \in D |-> f[p]]

RootFiles(f) == {n \in Children(f, <<>>) : IsFile(f, <<n>>)}

RootDirs(f) == {n \in Children(f, <<>>) : IsDir(f, <<n>>)}

\* The position of a name in the listing order of the filesystem.
Rank(name) == CHOOSE i \in 1..Len(order) : order[i] = name

\* The names of a set in listing order.
RECURSIVE Listed(_)
Listed(names) ==
    IF names = {} THEN <<>>
    ELSE LET first == CHOOSE n \in names : \A m \in names : Rank(n) <= Rank(m)
         IN <<first>> \o Listed(names \ {first})

\* os.listdir(d)
Listdir(f, d) == Listed(Children(f, d))

\* The result of a filesystem call: the tree after it, or the exception.
Ok(f) == [fs |-> f, exc |-> "none"]

Raise(f, e) == [fs |-> f, exc |-> e]

\* os.makedirs(p), its parent existing
Makedirs(f, p) ==
    IF Exists(f, p) THEN Raise(f, "FileExistsError")
    ELSE Ok([q \in DOMAIN f \cup {p} |-> IF q = p THEN DirNode ELSE f[q]])

\* os.remove(p)
OsRemove(f, p) ==
    IF ~Exists(f, p) THEN Raise(f, "FileNotFoundError")
    ELSE IF IsDir(f, p) THEN Raise(f, "IsADirectoryError")
    ELSE Ok(Restrict(f, DOMAIN f \ {p}))

\* The tree with the node at src, and all below it, moved to dst, replacing
\* what was there.
Moved(f, src, dst) ==
    LET from == {q \in DOMAIN f : q = src \/ Under(q, src)}
        gone == {q \in DOMAIN f : q = dst \/ Under(q, dst)}
        to(q) == dst \o SubSeq(q, Len(src) + 1, Len(q))
        kept == (DOMAIN f \ from) \ gone
    IN [q \in kept \cup {to(r) : r \in from} |->
           IF q \in kept THEN f[q]
           ELSE f[CHOOSE r \in from : to(r) = q]]

\* os.rename(src, dst) on a POSIX filesystem: a file replaces a file, a
\* directory replaces an empty directory only.
OsRename(f, src, dst) ==
    IF ~Exists(f, src) \/ ~IsDir(f, Parent(dst)) THEN Raise(f, "FileNotFoundError")
    ELSE IF src = dst THEN Ok(f)
    ELSE IF ~Exists(f, dst) THEN Ok(Moved(f, src, dst))
    ELSE IF IsFile(f, src)
        THEN (IF IsDir(f, dst) THEN Raise(f, "IsADirectoryError")
              ELSE Ok(Moved(f, src, dst)))
    ELSE IF IsFile(f, dst) THEN Raise(f, "NotADirectoryError")
    ELSE IF Children(f, dst) # {} THEN Raise(f, "OSError")
    ELSE Ok(Moved(f, src, dst))

\* shutil.move(src, dst) of a file: into dst when dst is a directory (an
\* error when it holds the name already), else onto dst.
ShutilMove(f, src, dst) ==
    IF IsDir(f, dst)
        THEN (IF Exists(f, dst \o <<Basename(src)>>)
                  THEN Raise(f, "shutil.Error")
                  ELSE OsRename(f, src, dst \o <<Basename(src)>>))
        ELSE OsRename(f, src, dst)

\* A removal that leaves the directory where it is.
Rmtree_Kept(f, p) ==
    IF ~IsDir(f, p) THEN Raise(f, "FileNotFoundError") ELSE Ok(f)

\* shutil.rmtree(p)
Rmtree(f, p) ==
    IF ~IsDir(f, p) THEN Raise(f, "FileNotFoundError")
    ELSE Ok(Restrict(f, {q \in DOMAIN f : q # p /\ ~Under(q, p)}))

---------------------------------------------------------------------------
(***************************************************************************)
(* MovieCleanupGUI: gui.py                                                 *)
(***************************************************************************)

\* The attributes bound on self by __init__ and setup_gui (gui.py:11-16,
\* 35, 41, 54).  The buttons of lines 45-51 are gridded and never assigned
\* to an attribute: there is no self.start_button.
SelfAttributes ==
    {"master", "config_path", "config", "movie_directory_var",
     "unwanted_ext_var", "log_text"}

\* The operations gui.py imports and movie_cleanup.py defines.
LibraryOps ==
    {"clean_unwanted_files", "organize_files_into_folders", "rename_movie_folders"}

\* Imported by gui.py:5-7 as well, defined in no file of src/: taken from
\* section 4.2 of the specification as operations that return or raise.
MissingOps == {"process_subtitles", "rename_subtitles_and_nfo"}

SingleTasks == LibraryOps \cup MissingOps

\* The operations a worker calls, in order.  "script" is target() of
\* run_script (gui.py:88-90); a single task calls its one operation.
TaskCalls(task) ==
    IF task = "script"
        THEN <<"organize_files_into_folders", "clean_unwanted_files",
               "rename_movie_folders">>
        ELSE <<task>>

StartMessage(task) ==
    CASE task = "script" -> "Starting cleanup..."
      [] task = "clean_unwanted_files" -> "Cleaning unwanted files..."
      [] task = "organize_files_into_folders" -> "Organizing files into folders..."
      [] task = "process_subtitles" -> "Processing subtitles..."
      [] task = "rename_subtitles_and_nfo" -> "Renaming subtitles and NFO files..."
      [] task = "rename_movie_folders" -> "Renaming movie folders..."

FinishMessage(task) ==
    CASE task = "script" -> "Cleanup completed successfully."
      [] task = "clean_unwanted_files" -> "Finished cleaning unwanted files."
      [] task = "organize_files_into_folders" -> "Finished organizing files into folders."
      [] task = "process_subtitles" -> "Finished processing subtitles."
      [] task = "rename_subtitles_and_nfo" -> "Finished renaming subtitles and NFO files."
      [] task = "rename_movie_folders" -> "Finished renaming movie folders."

ErrorMessage(task, e) ==
    CASE task \in {"script", "clean_unwanted_files", "organize_files_into_folders"} ->
             "An error occurred: " \o e
      [] task = "process_subtitles" ->
             "An error occurred while processing subtitles: " \o e
      [] task = "rename_subtitles_and_nfo" ->
             "An error occurred while renaming subtitles and NFO files: " \o e
      [] task = "rename_movie_folders" ->
             "An error occurred while renaming movie folders: " \o e

\* str(e) of the exceptions an operation lets escape.
ExceptionTexts == {"[Errno 13] Permission denied"}

\* The per-item failure an operation logs with logging.error when one of
\* its filesystem calls fails inside its try block (movie_cleanup.py:83, 104,
\* 199; for the two missing operations, section 4.3 of the specification).
PerItemFailure(op) ==
    CASE op = "clean_unwanted_files" ->
             [level |-> "error", message |-> "Error deleting a.txt"]
      [] op = "organize_files_into_folders" ->
             [level |-> "error", message |-> "Error organizing A.mkv into folders"]
      [] op = "rename_movie_folders" ->
             [level |-> "error", message |-> "Error renaming folder x to A"]
      [] OTHER ->
             [level |-> "error", message |-> "Error moving or deleting subtitle files"]

\* The console line of a message that drops the newline.
ConsoleLine_NoNewline(message) == message

\* gui.py:72: self.log_text.insert(tk.END, message + "\n")
ConsoleLine(message) == message \o "\n"

\* An append_log_message that inserts into the console in the caller's thread.
Append_log_message_Direct(g, message) ==
    [g EXCEPT !.console = Append(g.console, ConsoleLine(message))]

\* gui.py:69-74 append_log_message: schedules callback() on the Tk loop with
\* master.after(0, callback).
Append_log_message(g, message) ==
    [g EXCEPT !.after = Append(g.after, [kind |-> "log", message |-> message])]

\* gui.py:98: self.master.after(0, lambda: self.start_button.config(state="normal"))
ScheduleEnable(g) ==
    [g EXCEPT !.after = Append(g.after, [kind |-> "enable"])]

\* A new worker thread (threading.Thread(target=...).start()).
NewThread(task) ==
    [task |-> task,
     pc |-> IF task = "script" THEN "call" ELSE "start",
     next |-> 1,            \* index in TaskCalls(task) of the call to make
     called |-> <<>>,       \* the operations called so far
     msgs |-> <<>>,         \* the messages this thread passed to append_log_message
     outcome |-> "none"]

Presses == gui.presses

\* gui.py:76-103 run_script, run by the Tk loop on a click of Start Cleanup.
\* Line 78 reads self.start_button: an AttributeError leaves the handler
\* there, and Tk reports it and goes on with the event loop.
Run_script ==
    /\ Presses < MaxPresses
    /\ IF "start_button" \in SelfAttributes
          THEN /\ gui' = Append_log_message(
                            [gui EXCEPT !.startButton = "disabled",
                                        !.presses = @ + 1,
                                        !.startClicks = @ + 1],
                            StartMessage("script"))
               /\ threads' = Append(threads, NewThread("script"))
          ELSE /\ gui' = [gui EXCEPT !.presses = @ + 1,
                                     !.startClicks = @ + 1,
                                     !.callbackErrors = Append(@, "AttributeError")]
               /\ UNCHANGED threads
    /\ UNCHANGED <<fs, run, order, rw, logging>>

\* gui.py:105-111, 131-137, 157-159: the start_* handlers, each starting one
\* daemon thread on its *_task method.
StartTask(task) ==
    /\ Presses < MaxPresses
    /\ gui' = [gui EXCEPT !.presses = @ + 1]
    /\ threads' = Append(threads, NewThread(task))
    /\ UNCHANGED <<fs, run, order, rw, logging>>

Start_clean_unwanted_files == StartTask("clean_unwanted_files")

Start_organize_files_into_folders == StartTask("organize_files_into_folders")

Start_process_subtitles == StartTask("process_subtitles")

Start_rename_subtitles_and_nfo == StartTask("rename_subtitles_and_nfo")

Start_rename_movie_folders == StartTask("rename_movie_folders")

\* First statement of a *_task method: the start message (lines 115, 124,
\* 141, 150, 163).
TaskStart(i) ==
    /\ threads[i].pc = "start"
    /\ gui' = Append_log_message(gui, StartMessage(threads[i].task))
    /\ threads' = [threads EXCEPT ![i].pc = "call",
                                  ![i].msgs = Append(@, StartMessage(threads[i].task))]
    /\ UNCHANGED <<fs, run, order, rw, logging>>

\* movie_cleanup.py:19-20: the warnings f_retry logs before the attempts 2,
\* 3 and 4 of an operation whose every attempt raises e.
RetryWarnings(e) ==
    {[level |-> "warning", message |-> e \o ", Retrying in 1 seconds..."],
     [level |-> "warning", message |-> e \o ", Retrying in 2 seconds..."],
     [level |-> "warning", message |-> e \o ", Retrying in 4 seconds..."]}

\* What the logging module holds after an operation ran: with a per-item
\* failure, its logging.error record; the record goes nowhere else.
Logged(log, op, failure) ==
    IF failure THEN log \cup {PerItemFailure(op)} ELSE log

\* The terminal message of a worker, and for target() its finally clause.
Terminal(g, t, message) ==
    IF t.task = "script"
        THEN ScheduleEnable(Append_log_message(g, message))
        ELSE Append_log_message(g, message)

\* The thread after its operation returned: the next call, or, after the
\* last one, the completion message (lines 93, 118, 127, 144, 153, 166).
AfterReturn(t) ==
    LET called == Append(t.called, TaskCalls(t.task)[t.next]) IN
    IF t.next < Len(TaskCalls(t.task))
        THEN [t EXCEPT !.next = @ + 1, !.called = called]
        ELSE [t EXCEPT !.pc = "done", !.called = called, !.outcome = "returned",
                       !.msgs = Append(@, FinishMessage(t.task))]

\* A worker without the except clause: the exception ends the thread.
AfterRaise_Uncaught(t, e) ==
    [t EXCEPT !.pc = "crashed",
              !.called = Append(t.called, TaskCalls(t.task)[t.next]),
              !.outcome = e]

\* The thread after its operation raised e: `except Exception as e` formats
\* the message (lines 95, 120, 129, 146, 155, 168).
AfterRaise(t, e) ==
    [t EXCEPT !.pc = "done",
              !.called = Append(t.called, TaskCalls(t.task)[t.next]),
              !.outcome = e,
              !.msgs = Append(@, ErrorMessage(t.task, e))]

\* What a thread that has just ended an operation appends to the console:
\* the message it added to msgs, if any.
Announce(g, t, t2) ==
    IF Len(t2.msgs) > Len(t.msgs)
        THEN Terminal(g, t2, t2.msgs[Len(t2.msgs)])
        ELSE g

\* The retry-wrapped operation of thread i runs, perhaps logging a per-item
\* failure, and returns; the try body goes on.
OperationReturns(i) ==
    /\ threads[i].pc = "call"
    /\ \E failure \in BOOLEAN :
          logging' = Logged(logging, TaskCalls(threads[i].task)[threads[i].next], failure)
    /\ threads' = [threads EXCEPT ![i] = AfterReturn(threads[i])]
    /\ gui' = Announce(gui, threads[i], threads'[i])
    /\ UNCHANGED <<fs, run, order, rw>>

\* The retry-wrapped operation lets an exception out: its fourth attempt
\* failed, after the wrapper logged its three warnings.
OperationRaises(i) ==
    /\ threads[i].pc = "call"
    /\ \E e \in ExceptionTexts :
          /\ logging' = logging \cup RetryWarnings(e)
          /\ threads' = [threads EXCEPT ![i] = AfterRaise(threads[i], e)]
    /\ gui' = Announce(gui, threads[i], threads'[i])
    /\ UNCHANGED <<fs, run, order, rw>>

\* The callback at the head of the Tk queue, run by the event loop.
RunCallback(g, cb) ==
    IF cb.kind = "log"
        THEN [g EXCEPT !.console = Append(@, ConsoleLine(cb.message))]
        ELSE [g EXCEPT !.startButton = "normal"]

\* The Tk event loop runs the oldest callback scheduled with after(0, ...).
TkProcessAfter ==
    /\ gui.after # <<>>
    /\ gui' = [RunCallback(gui, Head(gui.after)) EXCEPT !.after = Tail(gui.after)]
    /\ UNCHANGED <<fs, run, order, rw, threads, logging>>

GuiNext ==
    \/ Run_script
    \/ Start_clean_unwanted_files
    \/ Start_organize_files_into_folders
    \/ Start_process_subtitles
    \/ Start_rename_subtitles_and_nfo
    \/ Start_rename_movie_folders
    \/ \E i \in 1..Len(threads) :
          \/ TaskStart(i)
          \/ OperationReturns(i)
          \/ OperationRaises(i)
    \/ TkProcessAfter

\* ",".join(list) of gui.py:41
RECURSIVE JoinComma(_)
JoinComma(list) ==
    IF list = <<>> THEN <<>>
    ELSE IF Len(list) = 1 THEN list[1]
    ELSE list[1] \o <<",">> \o JoinComma(Tail(list))

\* text.split(",") of gui.py:65
RECURSIVE SplitComma(_)
SplitComma(text) ==
    IF \A i \in 1..Len(text) : text[i] # "," THEN <<text>>
    ELSE LET at == CHOOSE i \in 1..Len(text) :
                       text[i] = "," /\ \A j \in 1..(i - 1) : text[j] # ","
         IN <<SubSeq(text, 1, at - 1)>> \o SplitComma(SubSeq(text, at + 1, Len(text)))

\* ext.strip() of gui.py:65
RECURSIVE Strip(_)
Strip(text) ==
    IF text = <<>> THEN text
    ELSE IF Head(text) = " " THEN Strip(Tail(text))
    ELSE IF text[Len(text)] = " " THEN Strip(SubSeq(text, 1, Len(text) - 1))
    ELSE text

\* gui.py:65: [ext.strip() for ext in text.split(",") if ext.strip()]
ParseExtensions(text) ==
    LET parts == SplitComma(text)
    IN SelectSeq([i \in 1..Len(parts) |-> Strip(parts[i])], LAMBDA e : e # <<>>)

dotTxt == <<".", "t", "x", "t">>

dotJpg == <<".", "j", "p", "g">>

\* The directories the entry of line 36 and the dialog of line 59 can give.
Directories == {"/movies", "/downloads"}

\* The texts the entry of line 42 can hold.
ExtensionEntries == {dotTxt, dotTxt \o <<",", " ">> \o dotJpg \o <<",">>}

\* self.config after load_config (gui.py:14, 18-20)
LoadedConfig ==
    [movies_directory |-> "/movies", unwanted_extensions |-> <<dotTxt>>]

\* The window after setup_gui (gui.py:26-56): the console holds the
\* placeholder line, nothing is scheduled.
GuiIdle ==
    [startButton |-> "normal",
     console |-> <<"Logging messages will appear here...\n">>,
     after |-> <<>>,
     presses |-> 0,
     startClicks |-> 0,
     callbackErrors |-> <<>>,
     config |-> LoadedConfig,
     movie_directory_var |-> LoadedConfig.movies_directory,
     unwanted_ext_var |-> JoinComma(LoadedConfig.unwanted_extensions),
     saving |-> "idle"]

GuiInit ==
    /\ rw = RetryIdle
    /\ gui = GuiIdle
    /\ threads = <<>>
    /\ logging = {}
    /\ fs = NoTree
    /\ run = OpIdle
    /\ order = <<>>

SpecGui == GuiInit /\ [][GuiNext]_vars

---------------------------------------------------------------------------
(* The configuration mapping self.config, shared by the Tk loop and the   *)
(* worker threads: gui.py:58-67, 105-129                                   *)

\* gui.py:36, 58-61: the user types a directory or picks one with Browse.
EditDirectory ==
    /\ gui.saving = "idle"
    /\ \E d \in Directories \ {gui.movie_directory_var} :
          gui' = [gui EXCEPT !.movie_directory_var = d]
    /\ UNCHANGED <<threads, fs, run, order, rw, logging>>

\* gui.py:42: the user types into the entry of the unwanted extensions.
EditExtensions ==
    /\ gui.saving = "idle"
    /\ \E t \in ExtensionEntries \ {gui.unwanted_ext_var} :
          gui' = [gui EXCEPT !.unwanted_ext_var = t]
    /\ UNCHANGED <<threads, fs, run, order, rw, logging>>

\* gui.py:64: the first statement of save_configuration
SaveDirectory ==
    /\ gui.saving = "idle"
    /\ gui' = [gui EXCEPT !.config.movies_directory = gui.movie_directory_var,
                          !.saving = "directory"]
    /\ UNCHANGED <<threads, fs, run, order, rw, logging>>

\* gui.py:65-67: the rest of save_configuration
SaveExtensions ==
    /\ gui.saving = "directory"
    /\ gui' = [gui EXCEPT
                  !.config.unwanted_extensions = ParseExtensions(gui.unwanted_ext_var),
                  !.saving = "idle"]
    /\ UNCHANGED <<threads, fs, run, order, rw, logging>>

\* A worker thread, with the keys it read of self.config and the values it
\* got; `dispatched` is the mapping as it was when the thread was started.
ConfigThread(task, config) ==
    [task |-> task, pc |-> "start", next |-> 1, called |-> <<>>, msgs |-> <<>>,
     outcome |-> "none", dispatched |-> config,
     read |-> {}, directory |-> "", extensions |-> <<>>]

\* gui.py:105-111: the handlers of the two buttons start a thread on the
\* bound method; no argument is passed to it.
DispatchTask(task) ==
    /\ gui.saving = "idle"
    /\ Presses < MaxDispatches
    /\ gui' = [gui EXCEPT !.presses = @ + 1]
    /\ threads' = Append(threads, ConfigThread(task, gui.config))
    /\ UNCHANGED <<fs, run, order, rw, logging>>

DispatchClean == DispatchTask("clean_unwanted_files")

DispatchOrganize == DispatchTask("organize_files_into_folders")

\* gui.py:117, 126: the worker evaluates self.config["movies_directory"]
ReadDirectory(i) ==
    /\ threads[i].pc = "call"
    /\ "movies_directory" \notin threads[i].read
    /\ threads' = [threads EXCEPT ![i].directory = gui.config.movies_directory,
                                  ![i].read = @ \cup {"movies_directory"}]
    /\ UNCHANGED <<gui, fs, run, order, rw, logging>>

\* gui.py:117-118, 126-127: the worker evaluates the other argument, if
\* any, calls the operation, and the operation returns.
ReadRestAndCall(i) ==
    /\ threads[i].pc = "call"
    /\ "movies_directory" \in threads[i].read
    /\ LET t == IF threads[i].task = "clean_unwanted_files"
                    THEN [threads[i] EXCEPT !.extensions = gui.config.unwanted_extensions,
                                            !.read = @ \cup {"unwanted_extensions"}]
                    ELSE threads[i]
       IN /\ threads' = [threads EXCEPT ![i] = AfterReturn(t)]
          /\ gui' = Announce(gui, t, threads'[i])
    /\ UNCHANGED <<fs, run, order, rw, logging>>

\* The Tk loop runs a callback between two handlers.
ConfigProcessAfter == gui.saving = "idle" /\ TkProcessAfter

ConfigNext ==
    \/ EditDirectory
    \/ EditExtensions
    \/ SaveDirectory
    \/ SaveExtensions
    \/ DispatchClean
    \/ DispatchOrganize
    \/ \E i \in 1..Len(threads) :
          \/ TaskStart(i)
          \/ ReadDirectory(i)
          \/ ReadRestAndCall(i)
    \/ ConfigProcessAfter

SpecConfig == GuiInit /\ [][ConfigNext]_vars

---------------------------------------------------------------------------
(* The specification of the retry wrapper *)

RetryCall ==
    /\ rw.pc = "idle"
    /\ rw' = RetryEnter(rw)
    /\ UNCHANGED <<gui, threads, logging, fs, run, order>>

RetryGuardedAttempt ==
    /\ rw.pc = "while"
    /\ WhileCondition(rw)
    /\ \E out \in FuncOutcomes : rw' = RetryAttempt(rw, TRUE, out)
    /\ UNCHANGED <<gui, threads, logging, fs, run, order>>

RetryBackoff ==
    /\ rw.pc = "except"
    /\ rw' = RetryExcept(rw)
    /\ UNCHANGED <<gui, threads, logging, fs, run, order>>

RetryFinalAttempt ==
    /\ rw.pc = "while"
    /\ ~WhileCondition(rw)
    /\ \E out \in FuncOutcomes : rw' = RetryAttempt(rw, FALSE, out)
    /\ UNCHANGED <<gui, threads, logging, fs, run, order>>

RetryNext ==
    \/ RetryCall
    \/ RetryGuardedAttempt
    \/ RetryBackoff
    \/ RetryFinalAttempt

RetryInit ==
    /\ \E t \in 1..MaxTries, d \in 1..MaxDelay, b \in 1..MaxBackoff :
          rw = [RetryIdle EXCEPT !.tries = t, !.delay = d, !.backoff = b]
    /\ gui = GuiIdle
    /\ threads = <<>>
    /\ logging = {}
    /\ fs = NoTree
    /\ run = OpIdle
    /\ order = <<>>

SpecRetry == RetryInit /\ [][RetryNext]_vars

---------------------------------------------------------------------------
(***************************************************************************)
(* organize_files_into_folders(directory): movie_cleanup.py:85-104         *)
(***************************************************************************)

ListingOrders(S) ==
    {q \in [1..Cardinality(S) -> S] : \A i, j \in 1..Cardinality(S) : q[i] = q[j] => i = j}

\* The tree with the files `files` in directory d, each holding its own content.
FilesIn(d, files) == [p \in {d \o <<n>> : n \in files} |-> FileNode(p)]

Info(text) == [level |-> "info", text |-> text]

Warning(text) == [level |-> "warning", text |-> text]

Error(text) == [level |-> "error", text |-> text]

\* lines 92-104: one turn of the loop over os.listdir(directory).  The
\* result is the tree and the records logged.
OrganizeItem(f, item) ==
    IF StartsWith(item, <<".">>) \/ ~IsFile(f, <<item>>)
        THEN [fs |-> f, log |-> <<>>]
    ELSE
        LET folder_path == <<Stem(item)>>
            made == IF ~Exists(f, folder_path) THEN Makedirs(f, folder_path) ELSE Ok(f)
            created == IF ~Exists(f, folder_path) /\ made.exc = "none"
                           THEN <<Info(<<"Created folder", folder_path>>)>>
                           ELSE <<>>
            moved == IF made.exc = "none"
                         THEN ShutilMove(made.fs, <<item>>, folder_path)
                         ELSE made
        IN IF moved.exc = "none"
               THEN [fs |-> moved.fs,
                     log |-> created \o <<Info(<<"Moved", item, folder_path>>)>>]
               ELSE [fs |-> moved.fs,
                     log |-> created \o <<Error(<<"Error organizing", item, moved.exc>>)>>]

\* lines 87-91: the check of the directory and the listing of its entries
OrganizeEnter ==
    /\ run.name = "organize_files_into_folders"
    /\ run.pc = "called"
    /\ IF ~Exists(fs, <<>>)
          THEN run' = [run EXCEPT !.pc = "returned",
                                  !.log = <<Error(<<"not a valid path">>)>>]
          ELSE run' = [run EXCEPT !.pc = "loop", !.items = Listdir(fs, <<>>)]
    /\ UNCHANGED <<fs, order, rw, gui, threads, logging>>

\* lines 91-104: the next entry of the listing
OrganizeNextItem ==
    /\ run.name = "organize_files_into_folders"
    /\ run.pc = "loop"
    /\ run.items # <<>>
    /\ LET r == OrganizeItem(fs, Head(run.items)) IN
          /\ fs' = r.fs
          /\ run' = [run EXCEPT !.items = Tail(@), !.log = @ \o r.log]
    /\ UNCHANGED <<order, rw, gui, threads, logging>>

\* the end of the loop: the function returns
OrganizeReturn ==
    /\ run.name = "organize_files_into_folders"
    /\ run.pc = "loop"
    /\ run.items = <<>>
    /\ run' = [run EXCEPT !.pc = "returned"]
    /\ UNCHANGED <<fs, order, rw, gui, threads, logging>>

OrganizeNext ==
    \/ OrganizeEnter
    \/ OrganizeNextItem
    \/ OrganizeReturn

\* The names of the trees organize_files_into_folders is run on.
nA == <<"A">>

nAmkv == <<"A", ".", "m", "k", "v">>

nBtxt == <<"B", ".", "t", "x", "t">>

nDotfile == <<".", "h">>

OrganizeNames == {nA, nAmkv, nBtxt, nDotfile}

\* The trees: no directory at all, or up to MaxRootFiles files in the
\* directory and perhaps a folder A, empty or holding A.mkv already.
OrganizeTrees ==
    {NoTree} \cup
    {(<<>> :> DirNode) @@ FilesIn(<<>>, files) @@ folder :
        files \in {F \in SUBSET OrganizeNames : Cardinality(F) <= MaxRootFiles},
        folder \in {NoTree, (<<nA>> :> DirNode),
                    (<<nA>> :> DirNode) @@ FilesIn(<<nA>>, {nAmkv})}}

OrganizeInit ==
    /\ fs \in {t \in OrganizeTrees : \A p \in DOMAIN t : t[p] \in {DirNode, FileNode(p)}}
    /\ order \in ListingOrders(OrganizeNames)
    /\ run = [name |-> "organize_files_into_folders", pc |-> "called",
              items |-> <<>>, log |-> <<>>, fs0 |-> fs]
    /\ rw = RetryIdle
    /\ gui = GuiIdle
    /\ threads = <<>>
    /\ logging = {}

SpecOrganize == OrganizeInit /\ [][OrganizeNext]_vars

---------------------------------------------------------------------------
(***************************************************************************)
(* rename_movie_folders(directory, movie_extensions):                      *)
(* movie_cleanup.py:180-199                                                *)
(***************************************************************************)

\* config["movie_extensions"]
MovieExtensions == {<<".", "m", "k", "v">>}

\* The directories os.walk(d) yields, parents before children, each level
\* in listing order (movie_cleanup.py:72).
RECURSIVE WalkTopDown(_, _)
WalkTopDown(f, d) ==
    LET subdirs == SelectSeq(Listdir(f, d), LAMBDA n : IsDir(f, d \o <<n>>))
        below[k \in 0..Len(subdirs)] ==
            IF k = 0 THEN <<>> ELSE below[k - 1] \o WalkTopDown(f, d \o <<subdirs[k]>>)
    IN <<d>> \o below[Len(subdirs)]

\* A walk of rename_movie_folders that goes top-down.
WalkBottomUp_TopDown(f, d) == WalkTopDown(f, d)

\* The directories os.walk(d, topdown=False) yields, children before
\* parents, each level in listing order.
RECURSIVE WalkBottomUp(_, _)
WalkBottomUp(f, d) ==
    LET subdirs == SelectSeq(Listdir(f, d), LAMBDA n : IsDir(f, d \o <<n>>))
        below[k \in 0..Len(subdirs)] ==
            IF k = 0 THEN <<>> ELSE below[k - 1] \o WalkBottomUp(f, d \o <<subdirs[k]>>)
    IN below[Len(subdirs)] \o <<d>>

\* The folders the two loops of lines 186-188 reach, in order: for every
\* directory of the walk, its subdirectories.
RECURSIVE FoldersOf(_, _)
FoldersOf(f, walk) ==
    IF walk = <<>> THEN <<>>
    ELSE LET d == Head(walk)
             subdirs == SelectSeq(Listdir(f, d), LAMBDA n : IsDir(f, d \o <<n>>))
         IN [k \in 1..Len(subdirs) |-> d \o <<subdirs[k]>>] \o FoldersOf(f, Tail(walk))

\* The folder a rename starts from when folder_path is computed again after
\* every rename.
RenameSource_Fresh(folder_path, current) == current

\* lines 188, 196: folder_path is computed once per folder, before the loop
\* over its files, and every rename starts from it.
RenameSource(folder_path, current) == folder_path

\* lines 189-199: the loop over the listing `files` of one folder.  `at` is
\* where the folder is now; the result is the tree, the records logged and
\* where the folder is.
RECURSIVE RenameForFiles(_, _, _, _)
RenameForFiles(f, folder_path, at, files) ==
    IF files = <<>> THEN [fs |-> f, log |-> <<>>, at |-> at]
    ELSE
        LET file == Head(files)
            movie_base_name == Stem(file)
            new_folder_path == Parent(folder_path) \o <<movie_base_name>>
            source == RenameSource(folder_path, at)
            renamed == OsRename(f, source, new_folder_path)
            step ==
                IF Ext(file) \notin MovieExtensions \/ source = new_folder_path
                    THEN [fs |-> f, log |-> <<>>, at |-> at]
                ELSE IF renamed.exc = "none"
                    THEN [fs |-> renamed.fs, at |-> new_folder_path,
                          log |-> <<Info(<<"Renamed folder", folder_path, movie_base_name>>)>>]
                ELSE [fs |-> f, at |-> at,
                      log |-> <<Error(<<"Error renaming folder", folder_path,
                                        movie_base_name>>)>>]
            rest == RenameForFiles(step.fs, folder_path, step.at, Tail(files))
        IN [fs |-> rest.fs, log |-> step.log \o rest.log, at |-> rest.at]

\* lines 188-199 for one folder
RenameFolder(f, folder_path) ==
    RenameForFiles(f, folder_path, folder_path, Listdir(f, folder_path))

\* lines 182-186: the check of the directory and the start of the walk
RenameEnter ==
    /\ run.name = "rename_movie_folders"
    /\ run.pc = "called"
    /\ IF ~Exists(fs, <<>>)
          THEN run' = [run EXCEPT !.pc = "returned",
                                  !.log = <<Error(<<"not a valid path">>)>>]
          ELSE run' = [run EXCEPT !.pc = "loop",
                                  !.items = FoldersOf(fs, WalkBottomUp(fs, <<>>))]
    /\ UNCHANGED <<fs, order, rw, gui, threads, logging>>

\* lines 187-199: the next folder; `turns` remembers, for every folder
\* handled, its path, its listing and where the loop left it.
RenameNextFolder ==
    /\ run.name = "rename_movie_folders"
    /\ run.pc = "loop"
    /\ run.items # <<>>
    /\ LET r == RenameFolder(fs, Head(run.items)) IN
          /\ fs' = r.fs
          /\ run' = [run EXCEPT !.items = Tail(@), !.log = @ \o r.log,
                                !.turns = Append(@, [folder_path |-> Head(run.items),
                                                     files |-> Listdir(fs, Head(run.items)),
                                                     at |-> r.at])]
    /\ UNCHANGED <<order, rw, gui, threads, logging>>

\* the end of the walk: the function returns
RenameReturn ==
    /\ run.name = "rename_movie_folders"
    /\ run.pc = "loop"
    /\ run.items = <<>>
    /\ run' = [run EXCEPT !.pc = "returned"]
    /\ UNCHANGED <<fs, order, rw, gui, threads, logging>>

RenameNext ==
    \/ RenameEnter
    \/ RenameNextFolder
    \/ RenameReturn

\* The names of the trees rename_movie_folders is run on.
nRandom == <<"r">>

nB == <<"B">>

nBmkv == <<"B", ".", "m", "k", "v">>

nNfo == <<"x", ".", "n", "f", "o">>

FolderNames == {nRandom, nA, nB}

FolderFiles == {nAmkv, nBmkv, nNfo}

\* A folder named d holding `files`.
Folder(d, files) == (<<d>> :> DirNode) @@ FilesIn(<<d>>, files)

\* The trees with the folders `names`, each with some of FolderFiles.
RECURSIVE FolderTrees(_)
FolderTrees(names) ==
    IF names = {} THEN {(<<>> :> DirNode)}
    ELSE LET d == CHOOSE n \in names : TRUE
         IN {Folder(d, files) @@ t : files \in SUBSET FolderFiles, t \in FolderTrees(names \ {d})}

\* The trees with the one folder r and a folder r inside it.
NestedTrees ==
    {(<<nRandom, nRandom>> :> DirNode) @@ FilesIn(<<nRandom, nRandom>>, inner)
         @@ Folder(nRandom, files) @@ (<<>> :> DirNode) :
        inner \in SUBSET FolderFiles, files \in SUBSET FolderFiles}

RenameTrees ==
    {NoTree} \cup NestedTrees \cup
    UNION {FolderTrees(names) :
              names \in {N \in SUBSET FolderNames : Cardinality(N) <= MaxFolders}}

RenameInit ==
    /\ fs \in RenameTrees
    /\ order \in {d \o f : d \in ListingOrders(FolderNames), f \in ListingOrders(FolderFiles)}
    /\ run = [name |-> "rename_movie_folders", pc |-> "called", call |-> 1,
              items |-> <<>>, log |-> <<>>, fs0 |-> fs, turns |-> <<>>,
              fs1 |-> NoTree, log1 |-> <<>>]
    /\ rw = RetryIdle
    /\ gui = GuiIdle
    /\ threads = <<>>
    /\ logging = {}

SpecRename == RenameInit /\ [][RenameNext]_vars

\* The function is called again on the tree it left, with the same
\* arguments; fs1 and log1 keep what the first call left.
RenameAgain ==
    /\ run.name = "rename_movie_folders"
    /\ run.pc = "returned"
    /\ run.call = 1
    /\ run' = [run EXCEPT !.pc = "called", !.call = 2, !.fs1 = fs, !.log1 = run.log,
                          !.log = <<>>, !.turns = <<>>]
    /\ UNCHANGED <<fs, order, rw, gui, threads, logging>>

RenameTwiceNext ==
    \/ RenameEnter
    \/ RenameNextFolder
    \/ RenameReturn
    \/ RenameAgain

SpecRenameTwice == RenameInit /\ [][RenameTwiceNext]_vars

---------------------------------------------------------------------------
(***************************************************************************)
(* is_excluded_subtitle, is_english_subtitle: movie_cleanup.py:28-64       *)
(***************************************************************************)

UpperCase ==
    <<"A", "B", "C", "D", "E", "F", "G", "H", "I", "J", "K", "L", "M",
      "N", "O", "P", "Q", "R", "S", "T", "U", "V", "W", "X", "Y", "Z">>

LowerCase ==
    <<"a", "b", "c", "d", "e", "f", "g", "h", "i", "j", "k", "l", "m",
      "n", "o", "p", "q", "r", "s", "t", "u", "v", "w", "x", "y", "z">>

Digits == {"0", "1", "2", "3", "4", "5", "6", "7", "8", "9"}

\* re.IGNORECASE: characters are compared in lower case.
Lower(c) ==
    IF c \in Range(UpperCase)
        THEN LowerCase[CHOOSE i \in 1..Len(UpperCase) : UpperCase[i] = c]
        ELSE c

\* \w of the re module
IsWordChar(c) == c \in Range(UpperCase) \cup Range(LowerCase) \cup Digits \cup {"_"}

\* \b between the characters i and i+1 of s (0 and Len(s) are its ends)
WordBoundary(s, i) ==
    LET before == i >= 1 /\ IsWordChar(s[i])
        after == i < Len(s) /\ IsWordChar(s[i + 1])
    IN before # after

\* re.search of a pattern made of a literal (given in lower case) with an
\* optional \b before and after it, ignoring case.
Search(pattern, s) ==
    \E i \in 1..(Len(s) - Len(pattern.literal) + 1) :
        /\ \A k \in 1..Len(pattern.literal) : Lower(s[i + k - 1]) = pattern.literal[k]
        /\ pattern.b_before => WordBoundary(s, i - 1)
        /\ pattern.b_after => WordBoundary(s, i + Len(pattern.literal) - 1)

Pattern(before, literal, after) ==
    [b_before |-> before, literal |-> literal, b_after |-> after]

\* lines 34-39
ExcludedPatterns ==
    {Pattern(TRUE, <<"f", "r", "e", "n", "c", "h">>, TRUE),
     Pattern(TRUE, <<"f", "r">>, TRUE),
     Pattern(FALSE, <<"3", "_", "f", "r", "e", "n", "c", "h">>, FALSE)}

\* lines 55-59
EnglishPatterns ==
    {Pattern(TRUE, <<"e", "n", "g">>, TRUE),
     Pattern(TRUE, <<"e", "n", "g", "l", "i", "s", "h">>, TRUE),
     Pattern(FALSE, <<"_", "e", "n", "g">>, TRUE),
     Pattern(FALSE, <<"_", "e", "n", "g", "l", "i", "s", "h">>, TRUE),
     Pattern(TRUE, <<"e", "n", "g", "_">>, FALSE),
     Pattern(TRUE, <<"e", "n", "g", "l", "i", "s", "h", "_">>, FALSE)}

\* lines 28-44
Is_excluded_subtitle(filename) == \E pat \in ExcludedPatterns : Search(pat, filename)

\* lines 47-64
Is_english_subtitle(filename) ==
    /\ ~Is_excluded_subtitle(filename)
    /\ \E pat \in EnglishPatterns : Search(pat, filename)

---------------------------------------------------------------------------
(***************************************************************************)
(* move_and_rename_subtitles_and_nfo(config): movie_cleanup.py:106-178     *)
(***************************************************************************)

dotSrt == <<".", "s", "r", "t">>

dotNfo == <<".", "n", "f", "o">>

\* config["subtitle_folder_names"]
SubtitleFolderNames == {<<"S", "u", "b", "s">>}

\* The state a block of the function works on: the tree, the records it
\* logged and the exception on its way out, if any.
Running(f) == [fs |-> f, log |-> <<>>, exc |-> "none"]

Log(st, rec) == [st EXCEPT !.log = Append(@, rec)]

\* lines 135-139: delete every subtitle of the listing but the exact match;
\* os.remove is in no try block.
RECURSIVE DeleteOthers(_, _, _, _)
DeleteOthers(st, root, subtitle_files, exact_match_subtitle) ==
    IF subtitle_files = <<>> \/ st.exc # "none" THEN st
    ELSE LET sub_file == Head(subtitle_files)
             removed == OsRemove(st.fs, root \o <<sub_file>>)
             next == IF sub_file = exact_match_subtitle THEN st
                     ELSE IF removed.exc # "none" THEN [st EXCEPT !.exc = removed.exc]
                     ELSE Log([st EXCEPT !.fs = removed.fs],
                              Info(<<"Deleted non-matching subtitle", sub_file>>))
         IN DeleteOthers(next, root, Tail(subtitle_files), exact_match_subtitle)

\* lines 148-159: the files of a subtitle folder; an exception ends the loop.
RECURSIVE SortSubtitles(_, _, _, _)
SortSubtitles(st, root, sub_folder_path, filenames) ==
    IF filenames = <<>> \/ st.exc # "none" THEN st
    ELSE LET filename == Head(filenames)
             source == sub_folder_path \o <<filename>>
             destination == root \o <<filename>>
             done == IF Is_english_subtitle(filename)
                         THEN ShutilMove(st.fs, source, destination)
                         ELSE OsRemove(st.fs, source)
             next == IF ~EndsWith(filename, dotSrt) THEN st
                     ELSE IF done.exc # "none" THEN [st EXCEPT !.exc = done.exc]
                     ELSE Log([st EXCEPT !.fs = done.fs],
                              IF Is_english_subtitle(filename)
                                  THEN Info(<<"Moved", source, destination>>)
                                  ELSE Info(<<"Deleted non-English subtitle", source>>))
         IN SortSubtitles(next, root, sub_folder_path, Tail(filenames))

\* lines 146-163: one subtitle folder, inside its try block
SubtitleFolder(st, root, dir) ==
    LET sub_folder_path == root \o <<dir>>
        sorted == IF IsDir(st.fs, sub_folder_path)
                      THEN SortSubtitles(st, root, sub_folder_path,
                                         Listdir(st.fs, sub_folder_path))
                      ELSE [st EXCEPT !.exc = "FileNotFoundError"]
        removed == Rmtree(sorted.fs, sub_folder_path)
    IN IF sorted.exc # "none"
           THEN Log([sorted EXCEPT !.exc = "none"],
                    Error(<<"Error moving or deleting subtitle files", sub_folder_path>>))
       ELSE IF removed.exc # "none"
           THEN Log(sorted, Error(<<"Error moving or deleting subtitle files", sub_folder_path>>))
       ELSE Log([sorted EXCEPT !.fs = removed.fs], Info(<<"Deleted folder", sub_folder_path>>))

\* lines 144-163: the subdirectories of the listing that are subtitle folders
RECURSIVE SubtitleFolders(_, _, _)
SubtitleFolders(st, root, dirs) ==
    IF dirs = <<>> THEN st
    ELSE SubtitleFolders(IF Head(dirs) \in SubtitleFolderNames
                             THEN SubtitleFolder(st, root, Head(dirs))
                             ELSE st,
                         root, Tail(dirs))

\* line 166: the renaming loop goes over `files`, the listing os.walk made
\* of the directory before the body ran.
RenameListing(f, root, files) == files

\* lines 166-178: rename the .srt and .nfo files of the listing
RECURSIVE RenameCompanions(_, _, _, _)
RenameCompanions(st, root, files, movie_base_name) ==
    IF files = <<>> THEN st
    ELSE LET file_to_rename == Head(files)
             new_name == movie_base_name \o Ext(file_to_rename)
             renamed == OsRename(st.fs, root \o <<file_to_rename>>, root \o <<new_name>>)
             next ==
                 IF ~(EndsWith(file_to_rename, dotSrt) \/ EndsWith(file_to_rename, dotNfo))
                     THEN st
                 ELSE IF Exists(st.fs, root \o <<new_name>>)
                     THEN Log(st, Warning(<<"Skipped", file_to_rename>>))
                 ELSE IF renamed.exc # "none"
                     THEN Log(st, Error(<<"Error renaming", file_to_rename, new_name>>))
                 ELSE Log([st EXCEPT !.fs = renamed.fs],
                          Info(<<"Renamed", file_to_rename, new_name>>))
         IN RenameCompanions(next, root, Tail(files), movie_base_name)

ExactMatch_Never(subtitle_files, exact_match_subtitle_name) == FALSE

\* lines 129-131: next(...) finds the subtitle named like the movie
ExactMatch(subtitle_files, exact_match_subtitle_name) ==
    exact_match_subtitle_name \in Range(subtitle_files)

\* lines 123-178: one movie file of the directory
ForMovie(st, root, dirs, files, movie_file) ==
    LET movie_base_name == Stem(movie_file)
        exact_match_subtitle_name == movie_base_name \o dotSrt
        subtitle_files == SelectSeq(files, LAMBDA n : EndsWith(n, dotSrt))
        moved == SubtitleFolders(st, root, dirs)
    IN IF ExactMatch(subtitle_files, exact_match_subtitle_name)
           THEN DeleteOthers(st, root, subtitle_files, exact_match_subtitle_name)
           ELSE RenameCompanions(moved, root, RenameListing(moved.fs, root, files),
                                 movie_base_name)

\* lines 122-178: the movie files of the directory, until an exception
RECURSIVE ForMovies(_, _, _, _, _)
ForMovies(st, root, dirs, files, movie_files) ==
    IF movie_files = <<>> \/ st.exc # "none" THEN st
    ELSE ForMovies(ForMovie(st, root, dirs, files, Head(movie_files)),
                   root, dirs, files, Tail(movie_files))

\* lines 117-178: the body of the walk for the directory root, with the
\* listing os.walk made of it
VisitDirectory(f, root) ==
    LET listing == Listdir(f, root)
        dirs == SelectSeq(listing, LAMBDA n : IsDir(f, root \o <<n>>))
        files == SelectSeq(listing, LAMBDA n : ~IsDir(f, root \o <<n>>))
        movie_files == SelectSeq(files, LAMBDA n : Ext(n) \in MovieExtensions)
    IN ForMovies(Running(f), root, dirs, files, movie_files)

\* lines 108-117: the check of the directory and the start of the walk
SubtitlesEnter ==
    /\ run.name = "move_and_rename_subtitles_and_nfo"
    /\ run.pc = "called"
    /\ IF ~Exists(fs, <<>>)
          THEN run' = [run EXCEPT !.pc = "returned",
                                  !.log = Append(@, Error(<<"not a valid path">>))]
          ELSE run' = [run EXCEPT !.pc = "loop", !.items = WalkBottomUp(fs, <<>>)]
    /\ UNCHANGED <<fs, order, rw, gui, threads, logging>>

\* lines 117-178: the next directory of the walk.  An exception leaves the
\* function: f_retry catches it while _tries > 1 (movie_cleanup.py:15-18),
\* and lets the one of its last call out.
SubtitlesNextDirectory ==
    /\ run.name = "move_and_rename_subtitles_and_nfo"
    /\ run.pc = "loop"
    /\ run.items # <<>>
    /\ LET r == VisitDirectory(fs, Head(run.items)) IN
          /\ fs' = r.fs
          /\ run' = [run EXCEPT
                        !.items = Tail(@),
                        !.log = @ \o r.log,
                        !.visited = Append(@, Head(run.items)),
                        !.pc = IF r.exc = "none" THEN "loop"
                               ELSE IF run._tries > 1 THEN "except" ELSE "raised"]
    /\ UNCHANGED <<order, rw, gui, threads, logging>>

\* movie_cleanup.py:19-23: the warning, the sleep, and the function is
\* called again
SubtitlesRetry ==
    /\ run.name = "move_and_rename_subtitles_and_nfo"
    /\ run.pc = "except"
    /\ run' = [run EXCEPT !.pc = "called",
                          !.items = <<>>,
                          !.log = Append(@, Warning(<<"Retrying in", run._delay>>)),
                          !._tries = @ - 1,
                          !._delay = @ * Backoff]
    /\ UNCHANGED <<fs, order, rw, gui, threads, logging>>

\* the end of the walk: the function returns
SubtitlesReturn ==
    /\ run.name = "move_and_rename_subtitles_and_nfo"
    /\ run.pc = "loop"
    /\ run.items = <<>>
    /\ run' = [run EXCEPT !.pc = "returned"]
    /\ UNCHANGED <<fs, order, rw, gui, threads, logging>>

SubtitlesNext ==
    \/ SubtitlesEnter
    \/ SubtitlesNextDirectory
    \/ SubtitlesRetry
    \/ SubtitlesReturn

\* The names of the trees move_and_rename_subtitles_and_nfo is run on.
nMmkv == <<"M", ".", "m", "k", "v">>

nNmkv == <<"N", ".", "m", "k", "v">>

nMsrt == <<"M", ".", "s", "r", "t">>

nNsrt == <<"N", ".", "s", "r", "t">>

nEnglish == <<"2", "_", "E", "n", "g", "l", "i", "s", "h", ".", "s", "r", "t">>

nFrench == <<"3", "_", "F", "r", "e", "n", "c", "h", ".", "s", "r", "t">>

nSubs == <<"S", "u", "b", "s">>

SiblingMovies == {nMmkv, nNmkv}

\* 2_English.srt can be in the directory as well as in its folder Subs.
SiblingCompanions == {nMsrt, nNsrt, nEnglish, nNfo}

SubsNames == {nEnglish, nFrench, nMmkv, nMsrt}

nMnfo == <<"M", ".", "n", "f", "o">>

nNnfo == <<"N", ".", "n", "f", "o">>

\* The names in the order a listing has them when no other is chosen; the
\* last two are names only a renaming gives.
ListedLast ==
    <<nMmkv, nNmkv, nMsrt, nNsrt, nNfo, nEnglish, nFrench, nSubs, nMnfo, nNnfo>>

\* The trees: up to MaxSiblings files beside each other in the directory and
\* perhaps a folder Subs with up to MaxInSubs files.
SiblingSets ==
    {F \in SUBSET (SiblingMovies \cup SiblingCompanions) : Cardinality(F) <= MaxSiblings}

SubsFolders ==
    {NoTree} \cup {Folder(nSubs, inside) :
                      inside \in {F \in SUBSET SubsNames : Cardinality(F) <= MaxInSubs}}

SubtitleTree(files, folder) == (<<>> :> DirNode) @@ FilesIn(<<>>, files) @@ folder

\* The listing orders of a directory with the files `files`: any order of
\* its movie files and any order of its other files (the function filters
\* the two out of the listing separately).
SiblingOrders(files) ==
    {m \o c \o SelectSeq(ListedLast, LAMBDA n : n \notin files) :
        m \in ListingOrders(files \cap SiblingMovies),
        c \in ListingOrders(files \cap SiblingCompanions)}

SubtitlesInit ==
    /\ \/ fs = NoTree /\ order = ListedLast
       \/ \E files \in SiblingSets, folder \in SubsFolders :
             /\ fs = SubtitleTree(files, folder)
             /\ order \in SiblingOrders(files)
    /\ run = [name |-> "move_and_rename_subtitles_and_nfo", pc |-> "called",
              items |-> <<>>, log |-> <<>>, fs0 |-> fs, visited |-> <<>>,
              _tries |-> Tries, _delay |-> Delay]
    /\ rw = RetryIdle
    /\ gui = GuiIdle
    /\ threads = <<>>
    /\ logging = {}

SpecSubtitles == SubtitlesInit /\ [][SubtitlesNext]_vars

---------------------------------------------------------------------------
(***************************************************************************)
(* clean_unwanted_files(directory, extensions): movie_cleanup.py:66-83     *)
(***************************************************************************)

\* file.endswith(extensions), extensions a tuple
EndsWithAny(name, extensions) ==
    \E k \in 1..Len(extensions) : EndsWith(name, extensions[k])

Matching_FirstOnly(files, extensions) ==
    LET all == SelectSeq(files, LAMBDA n : EndsWithAny(n, extensions))
    IN SubSeq(all, 1, IF all = <<>> THEN 0 ELSE 1)

\* lines 73-74: the files of the listing that end with one of the suffixes
Matching(files, extensions) == SelectSeq(files, LAMBDA n : EndsWithAny(n, extensions))

\* os.remove(p) where the files of `denied` cannot be removed
RemoveUnlessDenied(f, p, denied) ==
    IF p \in denied THEN Raise(f, "PermissionError") ELSE OsRemove(f, p)

\* lines 75-83: the removal of the files to delete of one directory, each in
\* its try block
RECURSIVE CleanFiles(_, _, _, _)
CleanFiles(st, root, files, denied) ==
    IF files = <<>> THEN st
    ELSE LET path == root \o <<Head(files)>>
             removed == RemoveUnlessDenied(st.fs, path, denied)
             next == IF removed.exc = "none"
                         THEN Log([st EXCEPT !.fs = removed.fs], Info(<<"Deleted", path>>))
                     ELSE IF removed.exc = "PermissionError"
                         THEN Log(st, Warning(<<"Permission denied", path>>))
                     ELSE IF removed.exc = "FileNotFoundError"
                         THEN Log(st, Warning(<<"File not found", path>>))
                     ELSE Log(st, Error(<<"Error deleting", path>>))
         IN CleanFiles(next, root, Tail(files), denied)

\* lines 68-72: the check of the directory and the start of the walk
CleanEnter ==
    /\ run.name = "clean_unwanted_files"
    /\ run.pc = "called"
    /\ IF ~Exists(fs, <<>>)
          THEN run' = [run EXCEPT !.pc = "returned",
                                  !.log = Append(@, Error(<<"not a valid path">>))]
          ELSE run' = [run EXCEPT !.pc = "loop", !.items = WalkTopDown(fs, <<>>)]
    /\ UNCHANGED <<fs, order, rw, gui, threads, logging>>

\* lines 72-83: the next directory of the walk and its files
CleanNextDirectory ==
    /\ run.name = "clean_unwanted_files"
    /\ run.pc = "loop"
    /\ run.items # <<>>
    /\ LET root == Head(run.items)
           files == SelectSeq(Listdir(fs, root), LAMBDA n : ~IsDir(fs, root \o <<n>>))
           r == CleanFiles(Running(fs), root, Matching(files, run.extensions), run.denied)
       IN /\ fs' = r.fs
          /\ run' = [run EXCEPT !.items = Tail(@), !.log = @ \o r.log]
    /\ UNCHANGED <<order, rw, gui, threads, logging>>

\* the end of the walk: the function returns
CleanReturn ==
    /\ run.name = "clean_unwanted_files"
    /\ run.pc = "loop"
    /\ run.items = <<>>
    /\ run' = [run EXCEPT !.pc = "returned"]
    /\ UNCHANGED <<fs, order, rw, gui, threads, logging>>

\* The function is called again on the tree it left, with the same
\* arguments; fs1 and log1 keep what the first call left.
CleanAgain ==
    /\ run.name = "clean_unwanted_files"
    /\ run.pc = "returned"
    /\ run.call = 1
    /\ run' = [run EXCEPT !.pc = "called", !.call = 2, !.fs1 = fs, !.log1 = run.log,
                          !.log = <<>>]
    /\ UNCHANGED <<fs, order, rw, gui, threads, logging>>

CleanNext ==
    \/ CleanEnter
    \/ CleanNextDirectory
    \/ CleanReturn
    \/ CleanAgain

\* The names of the trees clean_unwanted_files is run on.
nAtxt == <<"a", ".", "t", "x", "t">>

nBjpg == <<"b", ".", "j", "p", "g">>

CleanNames == {nAtxt, nBjpg, nAmkv}

\* The tuples of suffixes the function is called with.
ExtensionTuples == {<<>>, <<dotTxt>>, <<dotTxt, dotJpg>>}

\* The trees: some files in the directory and perhaps a folder with some.
CleanTrees ==
    {NoTree} \cup
    {(<<>> :> DirNode) @@ FilesIn(<<>>, files) @@ folder :
        files \in SUBSET CleanNames,
        folder \in {NoTree} \cup {Folder(nRandom, inside) : inside \in SUBSET CleanNames}}

\* The files os.remove is refused on, during both calls.
DeniedSets(f) ==
    {D \in SUBSET {p \in DOMAIN f : IsFile(f, p)} : Cardinality(D) <= MaxDenied}

CleanInit ==
    /\ fs \in CleanTrees
    /\ order \in {q \o <<nRandom>> : q \in ListingOrders(CleanNames)}
    /\ \E extensions \in ExtensionTuples, denied \in DeniedSets(fs) :
          run = [name |-> "clean_unwanted_files", pc |-> "called", call |-> 1,
                 extensions |-> extensions, denied |-> denied,
                 items |-> <<>>, log |-> <<>>, fs0 |-> fs,
                 fs1 |-> NoTree, log1 |-> <<>>]
    /\ rw = RetryIdle
    /\ gui = GuiIdle
    /\ threads = <<>>
    /\ logging = {}

SpecClean == CleanInit /\ [][CleanNext]_vars

---------------------------------------------------------------------------
(* The classifier applied to one file name: movie_cleanup.py:47-64 *)

\* is_english_subtitle(filename) is called and returns.
ClassifierCall ==
    /\ run.name = "is_english_subtitle"
    /\ run.pc = "called"
    /\ run' = [run EXCEPT !.pc = "returned", !.result = Is_english_subtitle(run.filename)]
    /\ UNCHANGED <<fs, order, rw, gui, threads, logging>>

ClassifierNext == ClassifierCall

\* The file names the classifier is called with: one of the two words, in
\* some letter case, between a beginning and an end.
Words ==
    {<<"e", "n", "g">>, <<"E", "N", "G">>, <<"E", "n", "g">>,
     <<"e", "n", "g", "l", "i", "s", "h">>, <<"E", "n", "g", "l", "i", "s", "h">>,
     <<"g", "e", "r">>}

Beginnings ==
    {<<>>, <<"_">>, <<".">>, <<"x">>, <<"x", "_">>, <<"x", ".">>, <<"2", "_">>,
     <<"x", "-">>, <<"f", "r", ".">>, <<"3", "_", "F", "r", "e", "n", "c", "h", ".">>}

Endings ==
    {<<>>, <<"_">>, <<"x">>, <<".", "s", "r", "t">>, <<"_", "2", ".", "s", "r", "t">>,
     <<"-", ".", "s", "r", "t">>, <<"x", ".", "s", "r", "t">>}

Filenames == {b \o w \o e : b \in Beginnings, w \in Words, e \in Endings}

ClassifierInit ==
    /\ \E filename \in Filenames :
          run = [name |-> "is_english_subtitle", pc |-> "called",
                 filename |-> filename, result |-> FALSE]
    /\ fs = NoTree
    /\ order = <<>>
    /\ rw = RetryIdle
    /\ gui = GuiIdle
    /\ threads = <<>>
    /\ logging = {}

SpecClassifier == ClassifierInit /\ [][ClassifierNext]_vars

---------------------------------------------------------------------------
(***************************************************************************)
(* manage_log_files(logs_dir, max_files): movie_cleanup.py:201-205         *)
(***************************************************************************)

\* A log file: a regular file with its modification time.
LogFile(name, mtime) == [type |-> "file", data |-> name, mtime |-> mtime]

LogPrefix == <<"m", "o", "v", "i", "e", "_", "c", "l", "e", "a", "n", "u", "p", "_">>

LogSuffix == <<".", "l", "o", "g">>

\* glob: the name matches movie_cleanup_*.log
MatchesLogPattern(name) ==
    /\ Len(name) >= Len(LogPrefix) + Len(LogSuffix)
    /\ StartsWith(name, LogPrefix)
    /\ EndsWith(name, LogSuffix)

\* glob.glob(os.path.join(logs_dir, "movie_cleanup_*.log")), in listing order
Glob(f) == SelectSeq(Listdir(f, <<>>), MatchesLogPattern)

Getmtime(f, name) == f[<<name>>].mtime

\* A sort that puts the oldest file first.
RECURSIVE NewestFirst_OldestFirst(_, _)
NewestFirst_OldestFirst(f, names) ==
    IF names = <<>> THEN <<>>
    ELSE LET first == CHOOSE i \in 1..Len(names) :
                 /\ \A j \in 1..Len(names) : Getmtime(f, names[i]) <= Getmtime(f, names[j])
                 /\ \A j \in 1..(i - 1) : Getmtime(f, names[j]) > Getmtime(f, names[i])
         IN <<names[first]>> \o
            NewestFirst_OldestFirst(f, SubSeq(names, 1, first - 1)
                                          \o SubSeq(names, first + 1, Len(names)))

\* sorted(..., key=os.path.getmtime, reverse=True): the newest first, the
\* files of one modification time in the order they had (the sort is stable).
RECURSIVE NewestFirst(_, _)
NewestFirst(f, names) ==
    IF names = <<>> THEN <<>>
    ELSE LET first == CHOOSE i \in 1..Len(names) :
                 /\ \A j \in 1..Len(names) : Getmtime(f, names[i]) >= Getmtime(f, names[j])
                 /\ \A j \in 1..(i - 1) : Getmtime(f, names[j]) < Getmtime(f, names[i])
         IN <<names[first]>> \o
            NewestFirst(f, SubSeq(names, 1, first - 1)
                              \o SubSeq(names, first + 1, Len(names)))

\* log_files[max_files:], max_files >= 0
SliceFrom(list, max_files) == SubSeq(list, max_files + 1, Len(list))

\* line 202 and the slice of line 203
LogsList ==
    /\ run.name = "manage_log_files"
    /\ run.pc = "called"
    /\ run' = [run EXCEPT !.pc = "loop",
                          !.items = SliceFrom(NewestFirst(fs, Glob(fs)), run.max_files)]
    /\ UNCHANGED <<fs, order, rw, gui, threads, logging>>

\* lines 203-205: the next file to delete
LogsRemoveNext ==
    /\ run.name = "manage_log_files"
    /\ run.pc = "loop"
    /\ run.items # <<>>
    /\ LET removed == OsRemove(fs, <<Head(run.items)>>) IN
          /\ fs' = removed.fs
          /\ run' = [run EXCEPT
                        !.items = Tail(@),
                        !.log = Append(@, Info(<<"Deleted old log file", Head(run.items)>>))]
    /\ UNCHANGED <<order, rw, gui, threads, logging>>

\* the end of the loop: the function returns
LogsReturn ==
    /\ run.name = "manage_log_files"
    /\ run.pc = "loop"
    /\ run.items = <<>>
    /\ run' = [run EXCEPT !.pc = "returned"]
    /\ UNCHANGED <<fs, order, rw, gui, threads, logging>>

LogsNext ==
    \/ LogsList
    \/ LogsRemoveNext
    \/ LogsReturn

\* The names of the files of logs_dir.
nLog1 == LogPrefix \o <<"1">> \o LogSuffix

nLog2 == LogPrefix \o <<"2">> \o LogSuffix

nLog3 == LogPrefix \o <<"3">> \o LogSuffix

nNoUnderscore == <<"m", "o", "v", "i", "e", "_", "c", "l", "e", "a", "n", "u", "p", ".", "l", "o", "g">>

nAppLog == <<"a", "p", "p">> \o LogSuffix

LogNames == {nLog1, nLog2, nLog3}

OtherNames == {nNoUnderscore, nAppLog}

\* The directories: some of the files, each with a modification time.
LogDirs ==
    UNION {{(<<>> :> DirNode) @@ [p \in {<<n>> : n \in names} |-> LogFile(p[1], mtime[p[1]])] :
               mtime \in [names -> 1..MaxMtime]} :
           names \in SUBSET (LogNames \cup OtherNames)}

LogsInit ==
    /\ fs \in LogDirs
    /\ order \in {q \o <<nNoUnderscore, nAppLog>> : q \in ListingOrders(LogNames)}
    /\ \E max_files \in 0..MaxKeep :
          run = [name |-> "manage_log_files", pc |-> "called", max_files |-> max_files,
                 items |-> <<>>, log |-> <<>>, fs0 |-> fs]
    /\ rw = RetryIdle
    /\ gui = GuiIdle
    /\ threads = <<>>
    /\ logging = {}

SpecLogs == LogsInit /\ [][LogsNext]_vars

---------------------------------------------------------------------------
(* Claims about rename_movie_folders *)

IsMovie(name) == Ext(name) \in MovieExtensions

FileNames(f, d) == {n \in Children(f, d) : IsFile(f, d \o <<n>>)}

MovieFilesAt(f, d) == {n \in FileNames(f, d) : Ext(n) \in MovieExtensions}

\* The movie files of the folder d of the initial tree, in listing order.
MoviesOf(d) == SelectSeq(Listdir(run.fs0, <<d>>), IsMovie)

\* The folders of the initial tree with several movie files (of differing
\* base names: the names of one folder differ, and so do their stems).
SeveralMovies == {d \in RootDirs(run.fs0) : Len(MoviesOf(d)) >= 2}

\* The name the folder d of the initial tree bears now: the folder its
\* files are in.
FolderNow(d) ==
    CHOOSE n \in Children(fs, <<>>) :
        \E file \in Children(run.fs0, <<d>>) :
            Exists(fs, <<n, file>>) /\ fs[<<n, file>>] = FileNode(<<d, file>>)

\* The records of the rename attempts made from folder_path.
AttemptsFrom(folder_path) ==
    SelectSeq(run.log, LAMBDA rec : Len(rec.text) = 3 /\ rec.text[2] = folder_path)

AttemptsFor(d) == AttemptsFrom(<<d>>)

FirstSuccessNamesFolder(turn) ==
    LET movies == SelectSeq(turn.files, IsMovie)
        tried == SelectSeq(movies, LAMBDA m : Stem(m) # Basename(turn.folder_path))
        attempts == AttemptsFrom(turn.folder_path)
        wins == {k \in 1..Len(attempts) : attempts[k].level = "info"}
    IN Len(movies) >= 2 =>
          /\ [k \in 1..Len(attempts) |-> attempts[k].text[3]]
                 = [k \in 1..Len(tried) |-> Stem(tried[k])]
          /\ Cardinality(wins) <= 1
          /\ \A k \in wins : \A j \in (k + 1)..Len(attempts) : attempts[j].level = "error"
          /\ turn.at = IF wins = {} THEN turn.folder_path
                       ELSE Parent(turn.folder_path)
                                \o <<attempts[CHOOSE k \in wins : TRUE].text[3]>>

RenameReturned == run.name = "rename_movie_folders" /\ run.pc = "returned"

\* The rename of the folder now at p to `base` was attempted and failed:
\* the record of line 199.
RenameFailed(p, base) ==
    \E i \in 1..Len(run.log) :
        /\ run.log[i].level = "error"
        /\ run.log[i].text[1] = "Error renaming folder"
        /\ Len(run.log[i].text[2]) = Len(p)
        /\ Basename(run.log[i].text[2]) = Basename(p)
        /\ run.log[i].text[3] = base

\* C13: when rename_movie_folders has returned, every folder below the root,
\* at any depth, that holds exactly one movie file bears the base name of
\* that file, unless the rename failed on an entry that held the name; and
\* the loop left a folder that bore the name already where it was, without a
\* rename.
C13_SingleMovieFolderNamed ==
    /\ RenameReturned =>
          \A p \in {q \in DOMAIN fs : q # <<>> /\ IsDir(fs, q)} :
              Cardinality(MovieFilesAt(fs, p)) = 1 =>
                  LET base == Stem(CHOOSE m \in MovieFilesAt(fs, p) : TRUE)
                  IN Basename(p) = base \/ RenameFailed(p, base)
    /\ \A k \in 1..Len(run.turns) :
          LET turn == run.turns[k]
              movies == SelectSeq(turn.files, IsMovie)
          IN Len(movies) = 1 /\ Basename(turn.folder_path) = Stem(movies[1]) =>
                 turn.at = turn.folder_path /\ AttemptsFrom(turn.folder_path) = <<>>

\* A run has returned on r/A.mkv, r/r/B.mkv: the files are A/A.mkv and
\* A/B/B.mkv.
C13_Witness ==
    /\ RenameReturned
    /\ IsFile(run.fs0, <<nRandom, nRandom, nBmkv>>)
    /\ IsFile(fs, <<nA, nAmkv>>)
    /\ IsFile(fs, <<nA, nB, nBmkv>>)

\* C19: a second call of rename_movie_folders on the tree the first call
\* left renames no folder: the tree stays the tree the first call left.
C19_SecondRunRenamesNothing ==
    (run.name = "rename_movie_folders" /\ run.call = 2) =>
        /\ fs = run.fs1
        /\ \A i \in 1..Len(run.log) : run.log[i].text[1] # "Renamed folder"

---------------------------------------------------------------------------
(* Claims about move_and_rename_subtitles_and_nfo *)

SubtitlesReturned ==
    run.name = "move_and_rename_subtitles_and_nfo" /\ run.pc = "returned"

\* The directories of the tree the operation was started on.
DirectoriesAtStart == {p \in DOMAIN run.fs0 : IsDir(run.fs0, p)}

Subtitles(f, d) == {n \in FileNames(f, d) : EndsWith(n, dotSrt)}

Companions(f, d) == {n \in FileNames(f, d) : EndsWith(n, dotSrt) \/ EndsWith(n, dotNfo)}

\* The base name of the one movie file of d
BaseNameAt(d) == Stem(CHOOSE n \in MovieFilesAt(run.fs0, d) : TRUE)

\* d had exactly one movie file and a file named <base name>.srt beside it
HadExactMatch(d) ==
    /\ Cardinality(MovieFilesAt(run.fs0, d)) = 1
    /\ IsFile(run.fs0, d \o <<BaseNameAt(d) \o dotSrt>>)

\* d had exactly one movie file and no subtitle named like it
HadNoExactMatch(d) ==
    /\ Cardinality(MovieFilesAt(run.fs0, d)) = 1
    /\ ~Exists(run.fs0, d \o <<BaseNameAt(d) \o dotSrt>>)

\* The files below d, by their content
ContentBelow(f, d) == {f[p].data : p \in {q \in DOMAIN f : Under(q, d) /\ IsFile(f, q)}}

\* The subtitle-folder step (lines 146-163) has been run on the folder p: it
\* ends with the record of line 161 or of line 163.
ProcessedAsSubtitleFolder(p) ==
    \E i \in 1..Len(run.log) :
        /\ run.log[i].text[1] \in {"Deleted folder", "Error moving or deleting subtitle files"}
        /\ run.log[i].text[2] = p

\* What the claim says of a directory with an exact match: <base name>.srt is
\* its only .srt file, every file it has is a file it had under that name,
\* and its subtitle folders are there and were not processed.
ExactMatchKept(d) ==
    /\ Subtitles(fs, d) = {BaseNameAt(d) \o dotSrt}
    /\ \A n \in FileNames(fs, d) :
          IsFile(run.fs0, d \o <<n>>) /\ run.fs0[d \o <<n>>] = fs[d \o <<n>>]
    /\ \A n \in FileNames(run.fs0, d) \ Subtitles(run.fs0, d) : IsFile(fs, d \o <<n>>)
    /\ \A n \in SubtitleFolderNames :
          IsDir(run.fs0, d \o <<n>>) =>
              /\ IsDir(fs, d \o <<n>>)
              /\ ~ProcessedAsSubtitleFolder(d \o <<n>>)

\* C5: when move_and_rename_subtitles_and_nfo has returned, in every directory
\* that had exactly one movie file and a file <base name>.srt beside it, the
\* only .srt file is <base name>.srt, no file has been renamed and no subtitle
\* folder of it has been processed.
C5_ExactMatchInEveryDirectory ==
    SubtitlesReturned =>
        \A d \in DirectoriesAtStart : HadExactMatch(d) => ExactMatchKept(d)

\* No part of the path of d is the name of a subtitle folder.
OutsideSubtitleFolders(d) == \A i \in 1..Len(d) : d[i] \notin SubtitleFolderNames

\* C5 (amended): the same, for the directories that neither are nor lie in a
\* folder named in subtitle_folder_names.
C5_ExactMatchOutsideSubtitleFolders ==
    SubtitlesReturned =>
        \A d \in DirectoriesAtStart :
            HadExactMatch(d) /\ OutsideSubtitleFolders(d) => ExactMatchKept(d)

\* A run has returned on a directory that had M.mkv, M.srt, 2_English.srt and
\* a folder Subs with files: 2_English.srt is gone.
C5_Witness ==
    /\ SubtitlesReturned
    /\ HadExactMatch(<<>>)
    /\ IsFile(run.fs0, <<nEnglish>>)
    /\ ~Exists(fs, <<nEnglish>>)
    /\ ContentBelow(run.fs0, <<nSubs>>) # {}
    /\ IsDir(fs, <<nSubs>>)

\* C6: when move_and_rename_subtitles_and_nfo has returned, in every directory
\* that had exactly one movie file and no subtitle named like it, every .srt
\* or .nfo file, the English subtitles moved up from subtitle folders
\* included, is named <base name><its extension>, unless that name is taken.
C6_EveryCompanionRenamed ==
    SubtitlesReturned =>
        \A d \in DirectoriesAtStart :
            HadNoExactMatch(d) /\ IsDir(fs, d) =>
                \A n \in Companions(fs, d) :
                    \/ n = BaseNameAt(d) \o Ext(n)
                    \/ Exists(fs, d \o <<BaseNameAt(d) \o Ext(n)>>)

\* The run met no failure: no error record, and no retry of the wrapper.
NoFailure ==
    \A i \in 1..Len(run.log) :
        run.log[i].level # "error" /\ run.log[i].text[1] # "Retrying in"

\* The subtitle folders d had
SubtitleFoldersAt(d) ==
    {d \o <<n>> : n \in {m \in SubtitleFolderNames : IsDir(run.fs0, d \o <<m>>)}}

\* The .srt files that were directly in the folder p, with their classes
EnglishIn(p) == {n \in Subtitles(run.fs0, p) : Is_english_subtitle(n)}

NonEnglishIn(p) == Subtitles(run.fs0, p) \ EnglishIn(p)

ContentIn(f, d) == {f[d \o <<n>>].data : n \in FileNames(f, d)}

AllContent(f) == {f[p].data : p \in {q \in DOMAIN f : IsFile(f, q)}}

\* What the claim says of the subtitle folders of d: none remains, the
\* English subtitles they held are files of d, the others are nowhere.
SubtitleFoldersEmptied(d) ==
    \A p \in SubtitleFoldersAt(d) :
        /\ ~Exists(fs, p)
        /\ \A n \in EnglishIn(p) : run.fs0[p \o <<n>>].data \in ContentIn(fs, d)
        /\ \A n \in NonEnglishIn(p) : run.fs0[p \o <<n>>].data \notin AllContent(fs)

HadMovieWithoutExactMatch(d) ==
    \E m \in MovieFilesAt(run.fs0, d) : ~Exists(run.fs0, d \o <<Stem(m) \o dotSrt>>)

OneMoviePlainFolders(d) ==
    /\ HadNoExactMatch(d)
    /\ OutsideSubtitleFolders(d)
    /\ \A p \in SubtitleFoldersAt(d) : MovieFilesAt(run.fs0, p) = {}

C18_NoFailureReachesRetry ==
    run.name = "move_and_rename_subtitles_and_nfo" =>
        /\ run.pc \notin {"except", "raised"}
        /\ run._tries = Tries

\* C20: when move_and_rename_subtitles_and_nfo ends, every subtitle that was
\* named <base name>.srt beside a movie file when it started is still there
\* under that name, however many movie files its directory holds.
C20_ExactMatchSubtitleSurvives ==
    (run.name = "move_and_rename_subtitles_and_nfo" /\ run.pc \in {"returned", "raised"}) =>
        \A d \in DirectoriesAtStart :
            \A m \in MovieFilesAt(run.fs0, d) :
                LET subtitle == d \o <<Stem(m) \o dotSrt>>
                IN IsFile(run.fs0, subtitle) =>
                       IsFile(fs, subtitle) /\ fs[subtitle] = run.fs0[subtitle]

---------------------------------------------------------------------------
(* Claims about organize_files_into_folders *)

LoggedFailure == \E i \in 1..Len(run.log) : run.log[i].level = "error"

\* C8: when organize_files_into_folders has returned and logged no failure,
\* every file that was a direct child of the root and is no dotfile is at
\* <root>/<base name>/<file name> and no longer a direct child of the root,
\* and the dotfiles and the directories that were there are where they were.
C8_EveryFileInItsFolder ==
    (run.name = "organize_files_into_folders" /\ run.pc = "returned" /\ ~LoggedFailure) =>
        /\ \A n \in RootFiles(run.fs0) :
              IF StartsWith(n, <<".">>)
                  THEN IsFile(fs, <<n>>) /\ fs[<<n>>] = run.fs0[<<n>>]
                  ELSE /\ IsFile(fs, <<Stem(n), n>>)
                       /\ fs[<<Stem(n), n>>] = run.fs0[<<n>>]
                       /\ ~IsFile(fs, <<n>>)
        /\ \A n \in RootDirs(run.fs0) :
              /\ IsDir(fs, <<n>>)
              /\ \A p \in DOMAIN run.fs0 : Under(p, <<n>>) => Exists(fs, p) /\ fs[p] = run.fs0[p]

\* C21: when organize_files_into_folders has returned, every regular file
\* that was a direct child of the root when it started is still a file
\* somewhere under the root with the content it had: none was overwritten
\* or deleted, also when an extensionless file is named like the base name
\* of another file.
C21_NoRootFileDestroyed ==
    (run.name = "organize_files_into_folders" /\ run.pc = "returned") =>
        \A n \in RootFiles(run.fs0) :
            \E p \in DOMAIN fs : IsFile(fs, p) /\ fs[p] = run.fs0[<<n>>]

---------------------------------------------------------------------------
(* Claims about the front end *)

Count(seq, x) == Cardinality({i \in 1..Len(seq) : seq[i] = x})

ScriptThreads == {i \in 1..Len(threads) : threads[i].task = "script"}

SingleThreads == {i \in 1..Len(threads) : threads[i].task \in SingleTasks}

\* C1: every handled click of Start Cleanup has its worker thread, which
\* calls organize_files_into_folders, move_and_rename_subtitles_and_nfo,
\* clean_unwanted_files and rename_movie_folders, one after the other in
\* this order, and has called all four when it ends normally.
C1_StartCleanupRunsFourOperations ==
    LET four == <<"organize_files_into_folders", "move_and_rename_subtitles_and_nfo",
                  "clean_unwanted_files", "rename_movie_folders">> IN
    /\ Cardinality(ScriptThreads) = gui.startClicks
    /\ \A i \in ScriptThreads :
          /\ IsPrefix(threads[i].called, four)
          /\ threads[i].outcome = "returned" => threads[i].called = four

\* C4: once Start Cleanup has been triggered its button is disabled, until
\* the worker has ended and scheduled the re-enabling.
C4_ButtonDisabledWhileRunning ==
    gui.startClicks > 0 =>
        \/ gui.startButton = "disabled"
        \/ /\ ScriptThreads # {}
           /\ \A i \in ScriptThreads : threads[i].pc = "done"

AllTasks == SingleTasks \cup {"script"}

GuiMessages ==
    {StartMessage(t) : t \in AllTasks} \cup {FinishMessage(t) : t \in AllTasks}
        \cup {ErrorMessage(t, e) : t \in AllTasks, e \in ExceptionTexts}

PendingMessages ==
    LET IsLog(cb) == cb.kind = "log"
        logs == SelectSeq(gui.after, IsLog) IN
    [k \in 1..Len(logs) |-> logs[k].message]

PassedToAppend(m) ==
    Cardinality({p \in (1..Len(threads)) \X (1..2) :
                    p[2] <= Len(threads[p[1]].msgs) /\ threads[p[1]].msgs[p[2]] = m})

Quiescent ==
    /\ gui.after = <<>>
    /\ \A i \in 1..Len(threads) : threads[i].pc = "done"

C10_OneStartOneTerminalMessage ==
    /\ Cardinality(SingleThreads) = gui.presses - gui.startClicks
    /\ \A i \in SingleThreads :
          LET t == threads[i] IN
          /\ t.pc \in {"start", "call", "done"}
          /\ t.pc = "start" => t.msgs = <<>>
          /\ t.pc = "call" => t.msgs = <<StartMessage(t.task)>>
          /\ t.pc = "done" =>
                /\ t.called = <<t.task>>
                /\ t.msgs = <<StartMessage(t.task),
                              IF t.outcome = "returned"
                                  THEN FinishMessage(t.task)
                                  ELSE ErrorMessage(t.task, t.outcome)>>
                /\ Count(gui.console, t.msgs[2] \o "\n") + Count(PendingMessages, t.msgs[2]) > 0

C10_Witness ==
    /\ Quiescent
    /\ \E i, j \in SingleThreads :
          /\ threads[i].task = "process_subtitles"
          /\ threads[i].outcome \in ExceptionTexts
          /\ threads[j].task = "rename_movie_folders"
          /\ threads[j].outcome = "returned"
    /\ Count(gui.console,
             "An error occurred while processing subtitles: [Errno 13] Permission denied\n") = 1
    /\ Count(gui.console, "Finished renaming movie folders.\n") = 1

\* C11: what a worker thread uses of the configuration is what the mapping
\* held when its action was dispatched, whatever is written to the mapping
\* between the dispatch and the worker's reads.
C11_WorkerUsesDispatchSnapshot ==
    \A i \in 1..Len(threads) :
        "dispatched" \in DOMAIN threads[i] =>
            /\ "movies_directory" \in threads[i].read =>
                   threads[i].directory = threads[i].dispatched.movies_directory
            /\ "unwanted_extensions" \in threads[i].read =>
                   threads[i].extensions = threads[i].dispatched.unwanted_extensions

\* C17: the console is written by the Tk loop only.  A step in which the
\* console changes is the Tk loop running the callback at the head of its
\* queue, and moves no worker thread; a step in which a worker thread moves
\* leaves the console as it is and at most adds callbacks to the queue.
C17_OnlyTkLoopWritesConsole ==
    [][/\ gui'.console # gui.console =>
              /\ threads' = threads
              /\ gui.after # <<>>
              /\ Head(gui.after).kind = "log"
              /\ gui'.after = Tail(gui.after)
              /\ gui'.console = Append(gui.console, ConsoleLine(Head(gui.after).message))
       /\ threads' # threads =>
              /\ gui'.console = gui.console
              /\ IsPrefix(gui.after, gui'.after)]_vars

\* Two workers are running, both have called append_log_message, and the
\* console holds a line of one of them while callbacks are still queued.
C17_Witness ==
    /\ Len(threads) >= 2
    /\ \A i \in 1..2 : threads[i].msgs # <<>> /\ threads[i].pc = "call"
    /\ Len(gui.console) >= 2
    /\ gui.after # <<>>

---------------------------------------------------------------------------
(* Claims about clean_unwanted_files *)

Deletions(log) == SelectSeq(log, LAMBDA rec : rec.level = "info" /\ rec.text[1] = "Deleted")

\* C14: a second call of clean_unwanted_files on the tree the first call
\* left, with the same suffixes, deletes no file and logs no deletion: the
\* tree stays the tree the first call left.
C14_SecondRunDeletesNothing ==
    (run.name = "clean_unwanted_files" /\ run.call = 2) =>
        /\ fs = run.fs1
        /\ Deletions(run.log) = <<>>

\* The second call has returned after a first call that deleted a file and
\* was refused another.
C14_Witness ==
    /\ run.name = "clean_unwanted_files"
    /\ run.call = 2
    /\ run.pc = "returned"
    /\ Deletions(run.log1) # <<>>
    /\ \E i \in 1..Len(run.log) : run.log[i].text[1] = "Permission denied"

---------------------------------------------------------------------------
(* Claims about is_english_subtitle *)

\* The character c delimits a token: an underscore or no word character.
Delimits(c) == c = "_" \/ ~IsWordChar(c)

\* s holds the word w, in any letter case, delimited on each side by the end
\* of the name, an underscore or a character that is no word character.
HoldsToken(s, w) ==
    \E i \in 1..(Len(s) - Len(w) + 1) :
        /\ \A k \in 1..Len(w) : Lower(s[i + k - 1]) = w[k]
        /\ i = 1 \/ Delimits(s[i - 1])
        /\ i + Len(w) - 1 = Len(s) \/ Delimits(s[i + Len(w)])

HoldsEnglishToken(s) ==
    \/ HoldsToken(s, <<"e", "n", "g">>)
    \/ HoldsToken(s, <<"e", "n", "g", "l", "i", "s", "h">>)

\* C15: is_english_subtitle returns true for every file name that holds
\* "eng" or "english", in any letter case, as a whole word or as a token
\* bounded by underscores, and that matches no exclusion pattern.
C15_TokenClassifiedEnglish ==
    (run.name = "is_english_subtitle" /\ run.pc = "returned") =>
        (HoldsEnglishToken(run.filename) /\ ~Is_excluded_subtitle(run.filename)
            => run.result = TRUE)

---------------------------------------------------------------------------
(* Claims about manage_log_files *)

Min(a, b) == IF a <= b THEN a ELSE b

MatchingIn(f) == {n \in Children(f, <<>>) : MatchesLogPattern(n)}

\* C16: when manage_log_files has returned, min(n, max_files) of the n files
\* that matched movie_cleanup_*.log remain, no file that remains is older
\* than a file that was deleted, and the other files are as they were.
C16_KeepsNewest ==
    (run.name = "manage_log_files" /\ run.pc = "returned") =>
        LET before == MatchingIn(run.fs0)
            kept == MatchingIn(fs)
        IN /\ kept \subseteq before
           /\ Cardinality(kept) = Min(Cardinality(before), run.max_files)
           /\ \A r \in kept : \A d \in before \ kept :
                  Getmtime(run.fs0, r) >= Getmtime(run.fs0, d)
           /\ \A p \in DOMAIN run.fs0 :
                  (p = <<>> \/ p[1] \notin before \/ p[1] \in kept) =>
                      (p \in DOMAIN fs /\ fs[p] = run.fs0[p])
           /\ DOMAIN fs \subseteq DOMAIN run.fs0

\* The function has returned on three matching files of two modification
\* times and a file that does not match: the oldest is gone.
C16_Witness ==
    /\ run.name = "manage_log_files"
    /\ run.pc = "returned"
    /\ run.max_files = 2
    /\ MatchingIn(run.fs0) = LogNames
    /\ Cardinality(MatchingIn(fs)) = 2
    /\ \E d \in LogNames \ MatchingIn(fs) :
          \E r \in MatchingIn(fs) : Getmtime(run.fs0, r) > Getmtime(run.fs0, d)
    /\ IsFile(fs, <<nNoUnderscore>>)

---------------------------------------------------------------------------
(* Claims about the retry wrapper *)

RetryDefaults == rw.tries = Tries /\ rw.delay = Delay /\ rw.backoff = Backoff

IsAttempt(e) == e[1] = "attempt"

IsFailure(e) == e[1] = "attempt" /\ e[2].kind = "raise"

NumAttempts == Len(SelectSeq(rw.events, IsAttempt))

NumFailures == Len(SelectSeq(rw.events, IsFailure))

\* The events of k caught failures with the delays 1s, 2s, 4s: each failed
\* attempt is followed by one warning and one sleep of the current delay.
RECURSIVE BackoffEvents(_)
BackoffEvents(k) ==
    IF k = 0 THEN <<>>
    ELSE BackoffEvents(k - 1) \o
         <<<<"attempt", [kind |-> "raise", value |-> "Exception"]>>,
           <<"warning", <<1, 2, 4>>[k]>>,
           <<"sleep", <<1, 2, 4>>[k]>>>>

\* C2: with tries=4, delay=1, backoff=2, a call that returns after k failed
\* attempts has k in 0..3, made exactly k+1 attempts, slept exactly the first
\* k of 1s, 2s, 4s (one warning and one sleep after each failure), returns
\* the value of the successful attempt and makes no further attempt.
C2_ReturnsAfterKFailures ==
    (RetryDefaults /\ rw.pc = "returned") =>
        /\ NumFailures \in 0..3
        /\ NumAttempts = NumFailures + 1
        /\ rw.events = BackoffEvents(NumFailures) \o
               <<<<"attempt", [kind |-> "return", value |-> rw.result]>>>>
        /\ rw.result \in FuncResults
        /\ ~ENABLED RetryNext

C2_Witness ==
    RetryDefaults /\ rw.pc = "returned" /\ NumFailures = 3 /\ NumAttempts = 4

AllAttemptsFailed ==
    /\ NumAttempts > 0
    /\ \A i \in 1..Len(rw.events) :
          IsAttempt(rw.events[i]) =>
              rw.events[i][2] = [kind |-> "raise", value |-> "Exception"]

\* C3: with tries=4, delay=1, backoff=2, when every attempt fails the wrapper
\* never makes more than 4 attempts, and when it has finished it made exactly
\* 4, warned and slept 1s, 2s, 4s after the first three, and the fourth
\* failure propagated with no warning or sleep after it.
C3_FourAttemptsThenPropagates ==
    (RetryDefaults /\ AllAttemptsFailed) =>
        /\ NumAttempts <= 4
        /\ rw.pc # "returned"
        /\ ~ENABLED RetryNext =>
              /\ rw.pc = "raised"
              /\ rw.result = "Exception"
              /\ rw.events = BackoffEvents(3) \o
                     <<<<"attempt", [kind |-> "raise", value |-> "Exception"]>>>>

C3_Witness ==
    RetryDefaults /\ AllAttemptsFailed /\ rw.pc = "raised" /\ NumAttempts = 4

=============================================================================
